---- MODULE Spec2Model ----
(***************************************************************************)
(* HyperGriot: the rank/permission lookup and the moderation command       *)
(* handlers of the repository's three bots:                                *)
(*   "main"       src/main.py, which loads src/modules/admin.py            *)
(*   "core"       src/core.py (Config, Database, TelegramBot)              *)
(*   "admintools" src/Modules/adminstool.py (AdminTools)                   *)
(* One process runs one bot; the variable bot says which.                  *)
(***************************************************************************)
EXTENDS Integers, Sequences, FiniteSets, TLC

\* ------------------------------------------------------------------ bounds
\* User ids are 1..MaxUser.
MaxUser == 2

\* Message ids are 1..MaxMsg; the command is the newest message.
MaxMsg == 3

\* adminstool.py purge_command, spurge_command: min(count, 100)
PurgeLimit == 100

\* The configured owner id (OWNER_ID, read from the environment; not 0).
OWNER_ID == 1

UserIds == 1..MaxUser

\* ------------------------------------------------------------ text helpers
\* A token of a command's text is a sequence of one-character strings.
Digits == <<"0", "1", "2", "3", "4", "5", "6", "7", "8", "9">>

IsDigitChar(c) == \E i \in 1..10 : Digits[i] = c

DigitVal(c) == (CHOOSE i \in 1..10 : Digits[i] = c) - 1

\* str.isdigit(): not empty and every character a digit.
isdigit(s) == Len(s) > 0 /\ \A i \in 1..Len(s) : IsDigitChar(s[i])

RECURSIVE DecimalValue(_)
DecimalValue(s) ==
    IF Len(s) = 0 THEN 0
    ELSE 10 * DecimalValue(SubSeq(s, 1, Len(s) - 1)) + DigitVal(s[Len(s)])

\* int(s) of Python on a token: an optional sign, then digits; anything else
\* raises ValueError (ok = FALSE).
int(s) ==
    LET signed == Len(s) > 0 /\ s[1] \in {"+", "-"}
        body   == IF signed THEN SubSeq(s, 2, Len(s)) ELSE s
    IN  IF isdigit(body)
        THEN [ok |-> TRUE,
              val |-> IF signed /\ s[1] = "-" THEN 0 - DecimalValue(body)
                      ELSE DecimalValue(body)]
        ELSE [ok |-> FALSE, val |-> 0]

\* The token that writes user id u (ids of the model have one digit).
IdToken(u) == <<Digits[u + 1]>>

\* lower() left out: the word is used as typed.
lower_missing(w) == w

\* str.lower() on the rank words a /setrank command is given in the model.
lower(w) ==
    CASE w = "DEV"   -> "dev"
      [] w = "Owner" -> "owner"
      [] w = "Sudo"  -> "sudo"
      [] OTHER       -> w

\* str.startswith('/s') on the text of the commands of the model.
startswith_s(cmd) == cmd \in {"sban", "skick", "smute", "spurge", "setrank", "status", "stats"}

\* min(a, b)
Min(a, b) == IF a < b THEN a ELSE b

\* dict.get(key, default)
DictGet(d, k, default) == IF k \in DOMAIN d THEN d[k] ELSE default

\* ------------------------------------------------------------------ ranks
\* A rank table that knows one name more.
RANKS_and_moderator ==
    [owner |-> 5, dev |-> 4, admin |-> 3, moderator |-> 3, sudo |-> 2, user |-> 1]

\* main.py RANKS
RANKS == [owner |-> 5, dev |-> 4, admin |-> 3, sudo |-> 2, user |-> 1]

\* core.py TelegramBot.check_rank: rank_hierarchy
rank_hierarchy == [user |-> 1, support |-> 2, sudo |-> 3, dev |-> 4, owner |-> 5]

\* A users table has one row per user_id (PRIMARY KEY); NoRecord: no row.
NoRecord == "<no record>"

EmptyTable == [u \in UserIds |-> NoRecord]

\* The dict {} of Python.
EmptyDict == <<>>

VARIABLES
    bot,        \* which bot this process runs ("parsers": the duration parsers alone,
                \* "plugins": core.py's PluginManager alone)
    users,      \* main.py: the users table, user_id -> rank
    DEVS,       \* core.py Config.DEVS
    SUDOS,      \* core.py Config.SUDOS
    SUPPORTS,   \* core.py Config.SUPPORTS
    coreDb,     \* core.py: the database file: tables created?, users table
    tasks,      \* core.py: where each task created by the constructors stands
    muted_users,  \* adminstool.py AdminTools.muted_users: {chat_id: {user_id: unmute_time}}
    banned_users, \* adminstool.py AdminTools.banned_users: {chat_id: {user_id: unban_time}}
    handlers,   \* adminstool.py: the tban_command coroutines that run concurrently
    loaded_plugins, \* core.py PluginManager.loaded_plugins: the names it holds a module for
    last        \* the last operation: its inputs, its result, its transport calls

vars ==
    <<bot, users, DEVS, SUDOS, SUPPORTS, coreDb, tasks, muted_users, banned_users, handlers,
      loaded_plugins, last>>

\* ----------------------------------------------------------- rank lookup
\* The persisted row consulted before the owner id.
get_user_rank_row_first(table, user_id) ==
    IF table[user_id] # NoRecord THEN table[user_id]
    ELSE IF user_id = OWNER_ID THEN "owner"
    ELSE "user"

\* main.py Database.get_user_rank
get_user_rank(table, user_id) ==
    IF user_id = OWNER_ID THEN "owner"
    ELSE IF table[user_id] # NoRecord THEN table[user_id]
    ELSE "user"

\* INSERT OR IGNORE: an existing row is kept.
set_user_rank_ignore(table, user_id, rank) ==
    IF table[user_id] = NoRecord THEN [table EXCEPT ![user_id] = rank] ELSE table

\* main.py Database.set_user_rank: INSERT OR REPLACE / upsert by user_id
set_user_rank(table, user_id, rank) == [table EXCEPT ![user_id] = rank]

\* core.py Config.get_rank
Config_get_rank(devs, sudos, supports, user_id) ==
    IF user_id = OWNER_ID THEN "owner"
    ELSE IF user_id \in devs THEN "dev"
    ELSE IF user_id \in sudos THEN "sudo"
    ELSE IF user_id \in supports THEN "support"
    ELSE "user"

\* core.py TelegramBot.get_rank
TelegramBot_get_rank(user_id) == Config_get_rank(DEVS, SUDOS, SUPPORTS, user_id)

\* ------------------------------------------------------------------ gates
\* Admitted only at exactly the required level.
check_rank_admits_exact(user_rank, required_rank) ==
    DictGet(RANKS, user_rank, 0) = DictGet(RANKS, required_rank, 0)

\* The comparison turned round.
check_rank_admits_flipped(user_rank, required_rank) ==
    DictGet(RANKS, user_rank, 0) <= DictGet(RANKS, required_rank, 0)

\* main.py check_rank: the wrapper's condition, on the resolved rank
check_rank_admits(user_rank, required_rank) ==
    DictGet(RANKS, user_rank, 0) >= DictGet(RANKS, required_rank, 0)

\* main.py check_rank(required_rank) applied to message.from_user.id
check_rank(table, user_id, required_rank) ==
    check_rank_admits(get_user_rank(table, user_id), required_rank)

\* core.py TelegramBot.check_rank: the comparison, on the resolved rank
TelegramBot_check_rank_admits(user_rank, required_rank) ==
    DictGet(rank_hierarchy, user_rank, 1) >= DictGet(rank_hierarchy, required_rank, 1)

\* core.py TelegramBot.check_rank
TelegramBot_check_rank(user_id, required_rank) ==
    TelegramBot_check_rank_admits(TelegramBot_get_rank(user_id), required_rank)

\* modules/admin.py check_rank: the wrapper calls the handler whatever the rank
admin_check_rank(user_rank, required_rank) == TRUE

\* ------------------------------------------------------- operation record
NoCalls == <<>>

\* The values the three duration parsers return: main.py and modules/admin.py
\* an int, AdminTools.parse_time None (<<>>) or an int (<<n>>).
NoResult == [main |-> 0, admin |-> 0, tools |-> <<>>]

\* What the last operation was given and what it did.
\*   given: caller, reply (the user replied to, 0: no reply), args (the tokens
\*     after the command), word (the rank word of /setrank; what a plugin
\*     load finds), fails (the calls
\*     that raise), chat (the chat type), msg and replyMsg (message ids),
\*     callerStatus and targetStatus (what get_chat_member answers)
\*   did: required and admitted (the gate), outcome, subject, rank, calls (the
\*     transport calls made, in order), result (of the duration parsers), kind
\*     (of the temporary restriction whose until_date has passed), plugin and
\*     returned (the plugin a PluginManager call names, and what it returned)
Idle ==
    [cmd |-> "none", site |-> "none", caller |-> 0, reply |-> 0, args |-> <<>>,
     word |-> "", fails |-> {}, chat |-> "", msg |-> 0, replyMsg |-> 0,
     callerStatus |-> "", targetStatus |-> "",
     required |-> "", admitted |-> FALSE,
     outcome |-> "", subject |-> 0, rank |-> "", calls |-> NoCalls,
     result |-> NoResult, kind |-> "", plugin |-> "", returned |-> FALSE]

\* A transport call: api, the user or message it is about, and until_date as
\* <<>> (None) or <<s>> (now + s seconds).
Call(api, arg, until) == [api |-> api, arg |-> arg, until |-> until]

\* The message a confirmation is sent as: newer than the command.
Confirmation(msg) == msg + 1

SendMessage == Call("send_message", 0, <<>>)

\* The ban and restrict calls among the transport calls of a command.
Restrictions(calls) ==
    {calls[i] : i \in {j \in 1..Len(calls) :
                          calls[j].api \in {"ban_chat_member", "restrict_chat_member"}}}

\* The ban or restrict call with an until_date that a command has made with
\* success: the temporary restrictions the transport now holds.
Temporary(l) ==
    IF l.outcome = "ok" THEN {c \in Restrictions(l.calls) : c.until # <<>>} ELSE {}

\* ---------------------------------------------------------------- main.py
\* The rank words a /setrank command carries ("": no word).
RankWords == {"owner", "dev", "admin", "sudo", "user", "support", "DEV", "moderator"}

\* The user identifiers a /setrank carries: the owner's id, another user's id,
\* that id with a leading zero, a username.
Identifiers ==
    {IdToken(OWNER_ID), IdToken(MaxUser), <<"0", Digits[MaxUser + 1]>>, <<"@", "b">>}

\* The user identifiers a moderation command carries.
TargetTokens == {IdToken(u) : u \in UserIds}

\* The duration tokens a moderation command carries.
DurationTokens ==
    {<<"3", "0", "m">>, <<"1", "h">>, <<"-", "5", "m">>, <<"5", "x">>, <<"0", "m">>}

\* main.py parse_time_duration: multipliers
multipliers == [m |-> 60, h |-> 3600, d |-> 86400, w |-> 604800]

\* main.py parse_time_duration
parse_time_duration(duration) ==
    IF Len(duration) = 0 THEN 0
    ELSE LET unit   == duration[Len(duration)]
             number == int(SubSeq(duration, 1, Len(duration) - 1))
         IN  IF unit \in DOMAIN multipliers /\ number.ok
             THEN number.val * multipliers[unit]
             ELSE 0

\* main.py get_user_from_message: the id of the target, 0 for None
get_user_from_message(reply, args, fails) ==
    IF reply # 0 THEN reply
    ELSE IF Len(args) < 1 THEN 0
    ELSE IF isdigit(args[1])
    THEN IF "get_chat_member" \in fails THEN 0 ELSE int(args[1]).val
    ELSE 0

\* An expiry also for a duration of zero seconds.
until_date_zero_expires(reply, args) ==
    LET nparts == 1 + Len(args)
        duration_seconds ==
            IF nparts > 2 \/ (nparts > 1 /\ reply = 0)
            THEN parse_time_duration(args[Len(args)])
            ELSE 0
    IN  IF duration_seconds >= 0 THEN <<duration_seconds>> ELSE <<>>

\* main.py ban_command, mute_command; modules/admin.py sban_command: the
\* until_date of the call, <<>> for None. The text is the command + args.
until_date(reply, args) ==
    LET nparts == 1 + Len(args)
        duration_seconds ==
            IF nparts > 2 \/ (nparts > 1 /\ reply = 0)
            THEN parse_time_duration(args[Len(args)])
            ELSE 0
    IN  IF duration_seconds > 0 THEN <<duration_seconds>> ELSE <<>>

Reply == Call("reply_to", 0, <<>>)

\* main.py setrank_command behind @check_rank('owner'). The text is
\* "/setrank" + args + word; "set_user_rank" in fails: the store write raises.
setrank_command(caller, args, word, fails) ==
    LET nparts == 1 + Len(args) + (IF word = "" THEN 0 ELSE 1)
        user_identifier == args[1]
        new_rank == lower(word)
        rec == [Idle EXCEPT !.cmd = "setrank", !.site = "main", !.caller = caller,
                            !.args = args, !.word = word, !.fails = fails,
                            !.required = "owner"]
    IN
    /\ bot = "main"
    /\ IF ~check_rank(users, caller, "owner")
       THEN /\ last' = [rec EXCEPT !.outcome = "forbidden"]
            /\ UNCHANGED users
       ELSE IF nparts < 3
       THEN /\ last' = [rec EXCEPT !.admitted = TRUE, !.outcome = "usage"]
            /\ UNCHANGED users
       ELSE IF new_rank \notin DOMAIN RANKS
       THEN /\ last' = [rec EXCEPT !.admitted = TRUE, !.outcome = "invalid rank"]
            /\ UNCHANGED users
       ELSE IF ~isdigit(user_identifier)
       THEN /\ last' = [rec EXCEPT !.admitted = TRUE, !.outcome = "need user id"]
            /\ UNCHANGED users
       ELSE IF "set_user_rank" \in fails
       THEN /\ last' = [rec EXCEPT !.admitted = TRUE, !.outcome = "error"]
            /\ UNCHANGED users
       ELSE /\ users' = set_user_rank(users, int(user_identifier).val, new_rank)
            /\ last' = [rec EXCEPT !.admitted = TRUE, !.outcome = "ok",
                                   !.subject = int(user_identifier).val,
                                   !.rank = new_rank]
    /\ UNCHANGED <<bot, DEVS, SUDOS, SUPPORTS, coreDb, tasks, muted_users, banned_users, handlers,
                 loaded_plugins>>

\* main.py info_command (no gate): the reply shows db.get_user_rank of the
\* target. "get_chat_member" in fails: the lookup of the user id raises.
info_command(caller, reply, args, fails) ==
    LET rec == [Idle EXCEPT !.cmd = "info", !.site = "main", !.caller = caller,
                            !.reply = reply, !.args = args, !.fails = fails]
        byId == reply = 0 /\ Len(args) > 0 /\ isdigit(args[1])
        target == IF reply # 0 THEN reply
                  ELSE IF byId THEN int(args[1]).val
                  ELSE caller
    IN
    /\ bot = "main"
    /\ IF byId /\ "get_chat_member" \in fails
       THEN last' = [rec EXCEPT !.outcome = "User not found"]
       ELSE last' = [rec EXCEPT !.outcome = "ok", !.subject = target,
                                !.rank = get_user_rank(users, target)]
    /\ UNCHANGED <<bot, users, DEVS, SUDOS, SUPPORTS, coreDb, tasks, muted_users, banned_users, handlers,
                 loaded_plugins>>

\* main.py status_command, stats_command behind @check_rank('sudo')
status_command(cmd, caller) ==
    LET rec == [Idle EXCEPT !.cmd = cmd, !.site = "main", !.caller = caller,
                            !.required = "sudo", !.calls = <<Reply>>]
    IN
    /\ bot = "main"
    /\ IF ~check_rank(users, caller, "sudo")
       THEN last' = [rec EXCEPT !.outcome = "forbidden"]
       ELSE last' = [rec EXCEPT !.admitted = TRUE, !.outcome = "ok"]
    /\ UNCHANGED <<bot, users, DEVS, SUDOS, SUPPORTS, coreDb, tasks, muted_users, banned_users, handlers,
                 loaded_plugins>>

\* main.py ban_command (commands ban, tban) behind @check_rank('admin')
ban_command(cmd, caller, chat, reply, args, fails) ==
    LET rec == [Idle EXCEPT !.cmd = cmd, !.site = "main", !.caller = caller,
                            !.required = "admin"]
        given == [rec EXCEPT !.admitted = TRUE, !.chat = chat, !.reply = reply,
                             !.args = args, !.fails = fails]
        target == get_user_from_message(reply, args, fails)
        ban == Call("ban_chat_member", target, until_date(reply, args))
    IN
    /\ bot = "main"
    /\ IF ~check_rank(users, caller, "admin")
       THEN last' = [rec EXCEPT !.outcome = "forbidden", !.calls = <<Reply>>]
       ELSE IF chat \notin {"group", "supergroup"}
       THEN last' = [given EXCEPT !.outcome = "groups only", !.calls = <<Reply>>]
       ELSE IF target = 0
       THEN last' = [given EXCEPT !.outcome = "no target", !.calls = <<Reply>>]
       ELSE IF "ban_chat_member" \in fails
       THEN last' = [given EXCEPT !.outcome = "failed", !.subject = target,
                                  !.calls = <<ban, Reply>>]
       ELSE last' = [given EXCEPT !.outcome = "ok", !.subject = target,
                                  !.calls = <<ban, Reply>>]
    /\ UNCHANGED <<bot, users, DEVS, SUDOS, SUPPORTS, coreDb, tasks, muted_users, banned_users, handlers,
                 loaded_plugins>>

\* main.py kick_command (commands kick, skick) behind @check_rank('admin')
kick_command(cmd, caller, chat, reply, args, fails) ==
    LET rec == [Idle EXCEPT !.cmd = cmd, !.site = "main", !.caller = caller,
                            !.required = "admin"]
        given == [rec EXCEPT !.admitted = TRUE, !.chat = chat, !.reply = reply,
                             !.args = args, !.fails = fails]
        target == get_user_from_message(reply, args, fails)
        ban == Call("ban_chat_member", target, <<>>)
        unban == Call("unban_chat_member", target, <<>>)
    IN
    /\ bot = "main"
    /\ IF ~check_rank(users, caller, "admin")
       THEN last' = [rec EXCEPT !.outcome = "forbidden", !.calls = <<Reply>>]
       ELSE IF chat \notin {"group", "supergroup"}
       THEN last' = [given EXCEPT !.outcome = "groups only", !.calls = <<Reply>>]
       ELSE IF target = 0
       THEN last' = [given EXCEPT !.outcome = "no target", !.calls = <<Reply>>]
       ELSE IF "ban_chat_member" \in fails
       THEN last' = [given EXCEPT !.outcome = "failed", !.subject = target,
                                  !.calls = <<ban, Reply>>]
       ELSE IF "unban_chat_member" \in fails
       THEN last' = [given EXCEPT !.outcome = "failed", !.subject = target,
                                  !.calls = <<ban, unban, Reply>>]
       ELSE last' = [given EXCEPT !.outcome = "ok", !.subject = target,
                                  !.calls = IF startswith_s(cmd)
                                            THEN <<ban, unban>>
                                            ELSE <<ban, unban, Reply>>]
    /\ UNCHANGED <<bot, users, DEVS, SUDOS, SUPPORTS, coreDb, tasks, muted_users, banned_users, handlers,
                 loaded_plugins>>

\* main.py mute_command (commands mute, tmute, smute) behind @check_rank('admin')
mute_command(cmd, caller, chat, reply, args, fails) ==
    LET rec == [Idle EXCEPT !.cmd = cmd, !.site = "main", !.caller = caller,
                            !.required = "admin"]
        given == [rec EXCEPT !.admitted = TRUE, !.chat = chat, !.reply = reply,
                             !.args = args, !.fails = fails]
        target == get_user_from_message(reply, args, fails)
        restrict == Call("restrict_chat_member", target, until_date(reply, args))
    IN
    /\ bot = "main"
    /\ IF ~check_rank(users, caller, "admin")
       THEN last' = [rec EXCEPT !.outcome = "forbidden", !.calls = <<Reply>>]
       ELSE IF chat \notin {"group", "supergroup"}
       THEN last' = [given EXCEPT !.outcome = "groups only", !.calls = <<Reply>>]
       ELSE IF target = 0
       THEN last' = [given EXCEPT !.outcome = "no target", !.calls = <<Reply>>]
       ELSE IF "restrict_chat_member" \in fails
       THEN last' = [given EXCEPT !.outcome = "failed", !.subject = target,
                                  !.calls = <<restrict, Reply>>]
       ELSE last' = [given EXCEPT !.outcome = "ok", !.subject = target,
                                  !.calls = IF startswith_s(cmd)
                                            THEN <<restrict>>
                                            ELSE <<restrict, Reply>>]
    /\ UNCHANGED <<bot, users, DEVS, SUDOS, SUPPORTS, coreDb, tasks, muted_users, banned_users, handlers,
                 loaded_plugins>>

\* ------------------------------------------------------- modules/admin.py
\* modules/admin.py parse_time_duration: multipliers
admin_multipliers == [m |-> 60, h |-> 3600, d |-> 86400, w |-> 604800]

\* modules/admin.py parse_time_duration
admin_parse_time_duration(duration) ==
    IF Len(duration) = 0 THEN 0
    ELSE LET unit   == duration[Len(duration)]
             number == int(SubSeq(duration, 1, Len(duration) - 1))
         IN  IF unit \in DOMAIN admin_multipliers /\ number.ok
             THEN number.val * admin_multipliers[unit]
             ELSE 0

\* modules/admin.py get_user_from_message: the id of the target, 0 for None
admin_get_user_from_message(reply, args, fails) ==
    IF reply # 0 THEN reply
    ELSE IF Len(args) < 1 THEN 0
    ELSE IF isdigit(args[1])
    THEN IF "get_chat_member" \in fails THEN 0 ELSE int(args[1]).val
    ELSE 0

\* modules/admin.py sban_command behind its @check_rank('admin'); main.py's
\* load_modules registers it on main.py's bot. msg: the command's message id.
admin_sban_command(caller, chat, msg, reply, args, fails) ==
    LET rec == [Idle EXCEPT !.cmd = "sban", !.site = "module", !.caller = caller,
                            !.required = "admin"]
        given == [rec EXCEPT !.admitted = TRUE, !.chat = chat, !.msg = msg,
                             !.reply = reply, !.args = args, !.fails = fails]
        target == admin_get_user_from_message(reply, args, fails)
        delete == Call("delete_message", msg, <<>>)
        ban == Call("ban_chat_member", target, until_date(reply, args))
    IN
    /\ bot = "main"
    /\ IF ~admin_check_rank(get_user_rank(users, caller), "admin")
       THEN last' = [rec EXCEPT !.outcome = "forbidden"]
       ELSE IF chat \notin {"group", "supergroup"}
       THEN last' = [given EXCEPT !.outcome = "groups only"]
       ELSE IF target = 0
       THEN last' = [given EXCEPT !.outcome = "no target"]
       ELSE IF "delete_message" \in fails
       THEN last' = [given EXCEPT !.outcome = "failed", !.subject = target,
                                  !.calls = <<delete>>]
       ELSE IF "ban_chat_member" \in fails
       THEN last' = [given EXCEPT !.outcome = "failed", !.subject = target,
                                  !.calls = <<delete, ban>>]
       ELSE last' = [given EXCEPT !.outcome = "ok", !.subject = target,
                                  !.calls = <<delete, ban>>]
    /\ UNCHANGED <<bot, users, DEVS, SUDOS, SUPPORTS, coreDb, tasks, muted_users, banned_users, handlers,
                 loaded_plugins>>

\* modules/admin.py purge_command behind its @check_rank('admin'): the command
\* message first, then the count messages before it; count is 1, or the span
\* of the reply, or min(number, 100). "delete_message" in fails: the delete of
\* the command message raises (one of an older message is passed over).
admin_purge_command(caller, chat, msg, replyMsg, args, fails) ==
    LET rec == [Idle EXCEPT !.cmd = "purge", !.site = "module", !.caller = caller,
                            !.required = "admin"]
        given == [rec EXCEPT !.admitted = TRUE, !.chat = chat, !.msg = msg,
                             !.replyMsg = replyMsg, !.args = args, !.fails = fails]
        count == IF replyMsg # 0 THEN msg - replyMsg + 1
                 ELSE IF Len(args) > 0 /\ isdigit(args[1])
                 THEN Min(int(args[1]).val, PurgeLimit)
                 ELSE 1
        command == Call("delete_message", msg, <<>>)
        confirm == Call("delete_message", Confirmation(msg), <<>>)
    IN
    /\ bot = "main"
    /\ IF ~admin_check_rank(get_user_rank(users, caller), "admin")
       THEN last' = [rec EXCEPT !.outcome = "forbidden"]
       ELSE IF chat \notin {"group", "supergroup"}
       THEN last' = [given EXCEPT !.outcome = "groups only", !.calls = <<Reply>>]
       ELSE IF "delete_message" \in fails
       THEN last' = [given EXCEPT !.outcome = "failed", !.calls = <<command, SendMessage>>]
       ELSE last' = [given EXCEPT !.outcome = "ok",
                         !.calls = <<command>>
                                   \o [i \in 1..count |->
                                          Call("delete_message", msg - i, <<>>)]
                                   \o <<SendMessage, confirm>>]
    /\ UNCHANGED <<bot, users, DEVS, SUDOS, SUPPORTS, coreDb, tasks, muted_users, banned_users, handlers,
                 loaded_plugins>>

\* ---------------------------------------------------------------- core.py
\* No task: the bot is not core.py's.
NoTasks == [init_db |-> "none", add_user |-> "none"]

\* core.py Database.__init__ and TelegramBot.__init__: asyncio.create_task of
\* init_db(), then of add_user(OWNER_ID, rank='owner'); neither awaits the other.
CreatedTasks == [init_db |-> "created", add_user |-> "created"]

\* core.py Database.init_db from its start to its first await:
\* "async with aiosqlite.connect(self.db_path)".
init_db_connect ==
    /\ bot = "core"
    /\ tasks.init_db = "created"
    /\ tasks' = [tasks EXCEPT !.init_db = "connected"]
    /\ last' = [Idle EXCEPT !.cmd = "init_db connect", !.site = "core", !.outcome = "ok"]
    /\ UNCHANGED <<bot, users, DEVS, SUDOS, SUPPORTS, coreDb, muted_users, banned_users,
                   handlers, loaded_plugins>>

\* core.py Database.init_db, the task Database.__init__ creates, on its
\* connection: CREATE TABLE IF NOT EXISTS users (and the other tables), commit.
init_db ==
    /\ bot = "core"
    /\ tasks.init_db = "connected"
    /\ tasks' = [tasks EXCEPT !.init_db = "done"]
    /\ coreDb' = [coreDb EXCEPT !.created = TRUE]
    /\ last' = [Idle EXCEPT !.cmd = "init_db", !.site = "core", !.outcome = "ok"]
    /\ UNCHANGED <<bot, users, DEVS, SUDOS, SUPPORTS, muted_users, banned_users, handlers,
                 loaded_plugins>>

\* core.py Database.add_user from its start to its first await (the connect).
\* The event loop starts the tasks in the order they were created: init_db has
\* run to its first await before add_user starts.
add_user_connect ==
    /\ bot = "core"
    /\ tasks.add_user = "created"
    /\ tasks.init_db # "created"
    /\ tasks' = [tasks EXCEPT !.add_user = "connected"]
    /\ last' = [Idle EXCEPT !.cmd = "add_user connect", !.site = "core",
                            !.outcome = "ok"]
    /\ UNCHANGED <<bot, users, DEVS, SUDOS, SUPPORTS, coreDb, muted_users, banned_users,
                   handlers, loaded_plugins>>

\* core.py Database.add_user(OWNER_ID, rank='owner'), the task
\* TelegramBot.__init__ creates, on its connection: INSERT OR REPLACE INTO
\* users, commit. The INSERT raises when the users table does not exist yet.
add_user ==
    /\ bot = "core"
    /\ tasks.add_user = "connected"
    /\ tasks' = [tasks EXCEPT !.add_user = "done"]
    /\ IF coreDb.created
       THEN /\ coreDb' = [coreDb EXCEPT !.users[OWNER_ID] = "owner"]
            /\ last' = [Idle EXCEPT !.cmd = "add_user", !.site = "core",
                                    !.subject = OWNER_ID, !.rank = "owner",
                                    !.outcome = "ok"]
       ELSE /\ UNCHANGED coreDb
            /\ last' = [Idle EXCEPT !.cmd = "add_user", !.site = "core",
                                    !.subject = OWNER_ID, !.rank = "owner",
                                    !.outcome = "error"]
    /\ UNCHANGED <<bot, users, DEVS, SUDOS, SUPPORTS, muted_users, banned_users, handlers,
                 loaded_plugins>>

\* core.py TelegramBot.get_rank(user_id)
get_rank(user_id) ==
    /\ bot = "core"
    /\ last' = [Idle EXCEPT !.cmd = "get_rank", !.site = "core", !.caller = user_id,
                            !.subject = user_id, !.outcome = "ok",
                            !.rank = TelegramBot_get_rank(user_id)]
    /\ UNCHANGED <<bot, users, DEVS, SUDOS, SUPPORTS, coreDb, tasks, muted_users, banned_users, handlers,
                 loaded_plugins>>

\* The rank names a caller of TelegramBot.check_rank passes as required_rank.
RequiredNames == {"user", "support", "sudo", "admin", "dev", "owner"}

\* core.py TelegramBot.check_rank(user_id, required_rank)
core_check_rank(user_id, required_rank) ==
    /\ bot = "core"
    /\ last' = [Idle EXCEPT !.cmd = "check_rank", !.site = "core",
                            !.caller = user_id, !.required = required_rank,
                            !.outcome = "ok",
                            !.admitted = TelegramBot_check_rank(user_id, required_rank)]
    /\ UNCHANGED <<bot, users, DEVS, SUDOS, SUPPORTS, coreDb, tasks, muted_users, banned_users, handlers,
                 loaded_plugins>>

\* core.py Config.DISABLED_PLUGINS, as read from the environment
DISABLED_PLUGINS == {"beta"}

\* What a load finds: the plugin file is missing, its import raises, the module
\* has no setup(), setup() raises, or all goes well.
LoadFinds == {"missing", "import raises", "no setup", "setup raises", "ok"}

\* core.py PluginManager.load_plugin: what it leaves in loaded_plugins and
\* what it returns, on the names given
load_plugin_result(loaded, plugin_name, finds) ==
    IF plugin_name \in DISABLED_PLUGINS
    THEN [loaded |-> loaded, returned |-> FALSE, outcome |-> "disabled"]
    ELSE IF finds = "missing"
    THEN [loaded |-> loaded, returned |-> FALSE, outcome |-> "not found"]
    ELSE IF finds = "import raises"
    THEN [loaded |-> loaded, returned |-> FALSE, outcome |-> "failed"]
    ELSE IF finds = "no setup"
    THEN [loaded |-> loaded, returned |-> FALSE, outcome |-> "missing setup"]
    ELSE IF finds = "setup raises"
    THEN [loaded |-> loaded, returned |-> FALSE, outcome |-> "failed"]
    ELSE [loaded |-> loaded \cup {plugin_name}, returned |-> TRUE, outcome |-> "ok"]

\* core.py PluginManager.load_plugin
load_plugin(plugin_name, finds) ==
    LET r == load_plugin_result(loaded_plugins, plugin_name, finds)
    IN
    /\ bot = "plugins"
    /\ loaded_plugins' = r.loaded
    /\ last' = [Idle EXCEPT !.cmd = "load_plugin", !.site = "plugins",
                            !.plugin = plugin_name, !.word = finds,
                            !.outcome = r.outcome, !.returned = r.returned]
    /\ UNCHANGED <<bot, users, DEVS, SUDOS, SUPPORTS, coreDb, tasks, muted_users,
                   banned_users, handlers>>

\* core.py PluginManager.reload_plugin: a loaded plugin is cleaned up (a
\* cleanup() that raises is logged) and deleted, then load_plugin is called.
reload_plugin(plugin_name, cleanup_raises, finds) ==
    LET r == load_plugin_result(loaded_plugins \ {plugin_name}, plugin_name, finds)
    IN
    /\ bot = "plugins"
    /\ loaded_plugins' = r.loaded
    /\ last' = [Idle EXCEPT !.cmd = "reload_plugin", !.site = "plugins",
                            !.plugin = plugin_name, !.word = finds,
                            !.fails = IF cleanup_raises /\ plugin_name \in loaded_plugins
                                      THEN {"cleanup"} ELSE {},
                            !.outcome = r.outcome, !.returned = r.returned]
    /\ UNCHANGED <<bot, users, DEVS, SUDOS, SUPPORTS, coreDb, tasks, muted_users,
                   banned_users, handlers>>

\* core.py PluginManager.unload_plugin
unload_plugin(plugin_name, cleanup_raises) ==
    /\ bot = "plugins"
    /\ IF plugin_name \notin loaded_plugins
       THEN /\ UNCHANGED loaded_plugins
            /\ last' = [Idle EXCEPT !.cmd = "unload_plugin", !.site = "plugins",
                                    !.plugin = plugin_name,
                                    !.outcome = "not loaded", !.returned = FALSE]
       ELSE /\ loaded_plugins' = loaded_plugins \ {plugin_name}
            /\ last' = [Idle EXCEPT !.cmd = "unload_plugin", !.site = "plugins",
                                    !.plugin = plugin_name,
                                    !.fails = IF cleanup_raises THEN {"cleanup"} ELSE {},
                                    !.outcome = "ok", !.returned = TRUE]
    /\ UNCHANGED <<bot, users, DEVS, SUDOS, SUPPORTS, coreDb, tasks, muted_users,
                   banned_users, handlers>>

\* ------------------------------------------------------------ adminstool.py
\* The user a username is resolved to.
NamedUser == MaxUser

\* str.lower() of one character of a duration string
LowerChar(c) ==
    CASE c = "S" -> "s" [] c = "M" -> "m" [] c = "H" -> "h" [] c = "D" -> "d"
      [] c = "W" -> "w" [] c = "X" -> "x" [] OTHER -> c

\* time_str.lower()
str_lower(time_str) == [i \in 1..Len(time_str) |-> LowerChar(time_str[i])]

\* AdminTools.parse_time: time_units
time_units == [s |-> 1, m |-> 60, h |-> 3600, d |-> 86400, w |-> 604800]

\* AdminTools.parse_time: the match of ^(\d+)([smhdw])$; None is <<>>, n is <<n>>
parse_time(time_str) ==
    IF Len(time_str) = 0 THEN <<>>
    ELSE LET t      == str_lower(time_str)
             amount == SubSeq(t, 1, Len(t) - 1)
             unit   == t[Len(t)]
         IN  IF isdigit(amount) /\ unit \in DOMAIN time_units
             THEN <<DecimalValue(amount) * time_units[unit]>>
             ELSE <<>>

\* Each of the three duration parsers applied to the same string, on its own.
parse_duration(d) ==
    /\ bot = "parsers"
    /\ last' = [Idle EXCEPT !.cmd = "parse", !.site = "parser", !.args = <<d>>,
                            !.result = [main  |-> parse_time_duration(d),
                                        admin |-> admin_parse_time_duration(d),
                                        tools |-> parse_time(d)]]
    /\ UNCHANGED <<bot, users, DEVS, SUDOS, SUPPORTS, coreDb, tasks, muted_users, banned_users, handlers,
                 loaded_plugins>>

\* The caller's lookup raising taken for "is an admin".
is_admin_fail_open(status) ==
    IF status = "error" THEN TRUE ELSE status \in {"creator", "administrator"}

\* AdminTools.is_admin; status: what get_chat_member answers about the caller
is_admin(status) ==
    IF status = "error" THEN FALSE ELSE status \in {"creator", "administrator"}

\* The target's lookup raising taken for "may be restricted".
can_restrict_user_fail_open(status) ==
    IF status = "error" THEN TRUE ELSE status \notin {"creator", "administrator"}

\* AdminTools.can_restrict_user; status: what get_chat_member answers about
\* the target
can_restrict_user(status) ==
    IF status = "error" THEN FALSE ELSE status \notin {"creator", "administrator"}

\* AdminTools.get_user_from_message: the id of the target, 0 for None
AdminTools_get_user_from_message(reply, args, fails) ==
    IF reply # 0 THEN reply
    ELSE IF Len(args) = 0 THEN 0
    ELSE IF args[1][1] = "@"
    THEN IF "get_chat_member" \in fails THEN 0 ELSE NamedUser
    ELSE IF isdigit(args[1])
    THEN IF "get_chat_member" \in fails THEN 0 ELSE int(args[1]).val
    ELSE 0

ReplyText == Call("reply_text", 0, <<>>)

\* AdminTools.ban_command (api "ban_chat_member") and AdminTools.mute_command
\* (api "restrict_chat_member"): the two differ in the call and the texts only.
AdminTools_permanent(cmd, api, caller, callerStatus, reply, args, targetStatus, fails) ==
    LET rec == [Idle EXCEPT !.cmd = cmd, !.site = "admintools", !.caller = caller,
                            !.callerStatus = callerStatus, !.calls = <<ReplyText>>]
        given == [rec EXCEPT !.admitted = TRUE, !.reply = reply, !.args = args,
                             !.fails = fails]
        user == AdminTools_get_user_from_message(reply, args, fails)
        apply == Call(api, user, <<>>)
    IN
    /\ bot = "admintools"
    /\ IF ~is_admin(callerStatus)
       THEN last' = [rec EXCEPT !.outcome = "forbidden"]
       ELSE IF user = 0
       THEN last' = [given EXCEPT !.outcome = "no target"]
       ELSE IF ~can_restrict_user(targetStatus)
       THEN last' = [given EXCEPT !.outcome = "cannot restrict", !.subject = user,
                                  !.targetStatus = targetStatus]
       ELSE last' = [given EXCEPT !.outcome = IF api \in fails THEN "failed" ELSE "ok",
                                  !.subject = user, !.targetStatus = targetStatus,
                                  !.calls = <<apply, ReplyText>>]
    /\ UNCHANGED <<bot, users, DEVS, SUDOS, SUPPORTS, coreDb, tasks, muted_users, banned_users, handlers,
                 loaded_plugins>>

\* AdminTools.ban_command
AdminTools_ban_command(caller, callerStatus, reply, args, targetStatus, fails) ==
    AdminTools_permanent("ban", "ban_chat_member", caller, callerStatus, reply, args,
                         targetStatus, fails)

\* AdminTools.mute_command
AdminTools_mute_command(caller, callerStatus, reply, args, targetStatus, fails) ==
    AdminTools_permanent("mute", "restrict_chat_member", caller, callerStatus, reply,
                         args, targetStatus, fails)

\* AdminTools.tban_command (api "ban_chat_member") and AdminTools.tmute_command
\* (api "restrict_chat_member"): the two differ in the call and the texts only.
\* Neither writes banned_users or muted_users.
AdminTools_timed_record(cmd, api, caller, callerStatus, reply, args, targetStatus, fails) ==
    LET rec == [Idle EXCEPT !.cmd = cmd, !.site = "admintools", !.caller = caller,
                            !.callerStatus = callerStatus, !.calls = <<ReplyText>>]
        given == [rec EXCEPT !.admitted = TRUE, !.reply = reply, !.args = args,
                             !.fails = fails]
        user == AdminTools_get_user_from_message(reply, args, fails)
        duration == parse_time(args[2])
        apply == Call(api, user, duration)
    IN
    IF ~is_admin(callerStatus)
    THEN [rec EXCEPT !.outcome = "forbidden"]
    ELSE IF Len(args) < 2
    THEN [given EXCEPT !.outcome = "usage"]
    ELSE IF user = 0
    THEN [given EXCEPT !.outcome = "no target"]
    ELSE IF ~can_restrict_user(targetStatus)
    THEN [given EXCEPT !.outcome = "cannot restrict", !.subject = user,
                       !.targetStatus = targetStatus]
    ELSE IF duration = <<>> \/ duration = <<0>>
    THEN [given EXCEPT !.outcome = "invalid time", !.subject = user,
                       !.targetStatus = targetStatus]
    ELSE [given EXCEPT !.outcome = IF api \in fails THEN "failed" ELSE "ok",
                       !.subject = user, !.targetStatus = targetStatus,
                       !.calls = <<apply, ReplyText>>]

\* A tban or tmute handled from its first line to its last with no other
\* handler in between.
AdminTools_timed(cmd, api, caller, callerStatus, reply, args, targetStatus, fails) ==
    /\ bot = "admintools"
    /\ last' = AdminTools_timed_record(cmd, api, caller, callerStatus, reply, args,
                                       targetStatus, fails)
    /\ UNCHANGED <<bot, users, DEVS, SUDOS, SUPPORTS, coreDb, tasks, muted_users, banned_users, handlers,
                 loaded_plugins>>

\* AdminTools.tban_command
AdminTools_tban_command(caller, callerStatus, reply, args, targetStatus, fails) ==
    AdminTools_timed("tban", "ban_chat_member", caller, callerStatus, reply, args,
                     targetStatus, fails)

\* AdminTools.tmute_command
AdminTools_tmute_command(caller, callerStatus, reply, args, targetStatus, fails) ==
    AdminTools_timed("tmute", "restrict_chat_member", caller, callerStatus, reply,
                     args, targetStatus, fails)

\* AdminTools.unban_command: no check of the target's status, no write of
\* banned_users.
AdminTools_unban_command(caller, callerStatus, reply, args, fails) ==
    LET rec == [Idle EXCEPT !.cmd = "unban", !.site = "admintools", !.caller = caller,
                            !.callerStatus = callerStatus, !.calls = <<ReplyText>>]
        given == [rec EXCEPT !.admitted = TRUE, !.reply = reply, !.args = args,
                             !.fails = fails]
        user == AdminTools_get_user_from_message(reply, args, fails)
        unban == Call("unban_chat_member", user, <<>>)
    IN
    /\ bot = "admintools"
    /\ IF ~is_admin(callerStatus)
       THEN last' = [rec EXCEPT !.outcome = "forbidden"]
       ELSE IF user = 0
       THEN last' = [given EXCEPT !.outcome = "no target"]
       ELSE last' = [given EXCEPT !.outcome = IF "unban_chat_member" \in fails
                                              THEN "failed" ELSE "ok",
                                  !.subject = user,
                                  !.calls = <<unban, ReplyText>>]
    /\ UNCHANGED <<bot, users, DEVS, SUDOS, SUPPORTS, coreDb, tasks, muted_users, banned_users, handlers,
                 loaded_plugins>>

\* AdminTools.kick_command: ban_chat_member, then unban_chat_member, in one
\* try; a call that raises ends the try with the "Failed to kick" reply.
AdminTools_kick_command(caller, callerStatus, reply, args, targetStatus, fails) ==
    LET rec == [Idle EXCEPT !.cmd = "kick", !.site = "admintools", !.caller = caller,
                            !.callerStatus = callerStatus, !.calls = <<ReplyText>>]
        given == [rec EXCEPT !.admitted = TRUE, !.reply = reply, !.args = args,
                             !.fails = fails]
        user == AdminTools_get_user_from_message(reply, args, fails)
        ban == Call("ban_chat_member", user, <<>>)
        unban == Call("unban_chat_member", user, <<>>)
    IN
    /\ bot = "admintools"
    /\ IF ~is_admin(callerStatus)
       THEN last' = [rec EXCEPT !.outcome = "forbidden"]
       ELSE IF user = 0
       THEN last' = [given EXCEPT !.outcome = "no target"]
       ELSE IF ~can_restrict_user(targetStatus)
       THEN last' = [given EXCEPT !.outcome = "cannot restrict", !.subject = user,
                                  !.targetStatus = targetStatus]
       ELSE IF "ban_chat_member" \in fails
       THEN last' = [given EXCEPT !.outcome = "failed", !.subject = user,
                                  !.targetStatus = targetStatus,
                                  !.calls = <<ban, ReplyText>>]
       ELSE IF "unban_chat_member" \in fails
       THEN last' = [given EXCEPT !.outcome = "failed", !.subject = user,
                                  !.targetStatus = targetStatus,
                                  !.calls = <<ban, unban, ReplyText>>]
       ELSE last' = [given EXCEPT !.outcome = "ok", !.subject = user,
                                  !.targetStatus = targetStatus,
                                  !.calls = <<ban, unban, ReplyText>>]
    /\ UNCHANGED <<bot, users, DEVS, SUDOS, SUPPORTS, coreDb, tasks, muted_users, banned_users, handlers,
                 loaded_plugins>>

\* AdminTools.sban_command (api "ban_chat_member") and AdminTools.smute_command
\* (api "restrict_chat_member"): the two differ in the call only.
AdminTools_silent(cmd, api, caller, callerStatus, msg, reply, args, targetStatus, fails) ==
    LET rec == [Idle EXCEPT !.cmd = cmd, !.site = "admintools", !.caller = caller,
                            !.callerStatus = callerStatus]
        given == [rec EXCEPT !.admitted = TRUE, !.msg = msg, !.reply = reply,
                             !.args = args, !.fails = fails]
        user == AdminTools_get_user_from_message(reply, args, fails)
        apply == Call(api, user, <<>>)
        delete == Call("delete_message", msg, <<>>)
    IN
    /\ bot = "admintools"
    /\ IF ~is_admin(callerStatus)
       THEN last' = [rec EXCEPT !.outcome = "forbidden"]
       ELSE IF user = 0
       THEN last' = [given EXCEPT !.outcome = "no target"]
       ELSE IF ~can_restrict_user(targetStatus)
       THEN last' = [given EXCEPT !.outcome = "cannot restrict", !.subject = user,
                                  !.targetStatus = targetStatus]
       ELSE IF api \in fails
       THEN last' = [given EXCEPT !.outcome = "failed", !.subject = user,
                                  !.targetStatus = targetStatus,
                                  !.calls = <<apply>>]
       ELSE last' = [given EXCEPT !.outcome = IF "delete_message" \in fails
                                              THEN "failed" ELSE "ok",
                                  !.subject = user,
                                  !.targetStatus = targetStatus,
                                  !.calls = <<apply, delete>>]
    /\ UNCHANGED <<bot, users, DEVS, SUDOS, SUPPORTS, coreDb, tasks, muted_users, banned_users, handlers,
                 loaded_plugins>>

\* AdminTools.sban_command
AdminTools_sban_command(caller, callerStatus, msg, reply, args, targetStatus, fails) ==
    AdminTools_silent("sban", "ban_chat_member", caller, callerStatus, msg, reply,
                      args, targetStatus, fails)

\* AdminTools.smute_command
AdminTools_smute_command(caller, callerStatus, msg, reply, args, targetStatus, fails) ==
    AdminTools_silent("smute", "restrict_chat_member", caller, callerStatus, msg,
                      reply, args, targetStatus, fails)

\* AdminTools.spurge_command; replyMsg: the id of the message replied to (0:
\* no reply). A delete that raises is skipped: the calls are the same.
AdminTools_spurge_command(caller, callerStatus, msg, replyMsg, args) ==
    LET rec == [Idle EXCEPT !.cmd = "spurge", !.site = "admintools",
                            !.caller = caller, !.callerStatus = callerStatus]
        given == [rec EXCEPT !.admitted = TRUE, !.msg = msg, !.replyMsg = replyMsg,
                             !.args = args]
        count == Min(int(args[1]).val, PurgeLimit)
    IN
    /\ bot = "admintools"
    /\ IF ~is_admin(callerStatus)
       THEN last' = [rec EXCEPT !.outcome = "forbidden"]
       ELSE IF replyMsg # 0
       THEN last' = [given EXCEPT !.outcome = "ok",
                         !.calls = [i \in 1..(msg - replyMsg + 1) |->
                                        Call("delete_message", replyMsg + i - 1, <<>>)]]
       ELSE IF Len(args) > 0 /\ isdigit(args[1])
       THEN last' = [given EXCEPT !.outcome = "ok",
                         !.calls = [i \in 1..(count + 1) |->
                                        Call("delete_message", msg - (i - 1), <<>>)]]
       ELSE last' = [given EXCEPT !.outcome = "nothing"]
    /\ UNCHANGED <<bot, users, DEVS, SUDOS, SUPPORTS, coreDb, tasks, muted_users, banned_users, handlers,
                 loaded_plugins>>

\* AdminTools.unmute_command (api "restrict_chat_member", with the default
\* permissions) and AdminTools.demote_command (api "promote_chat_member", with
\* every right False): the gate, the user, the call, the reply.
AdminTools_lift(cmd, api, caller, callerStatus, reply, args, fails) ==
    LET rec == [Idle EXCEPT !.cmd = cmd, !.site = "admintools", !.caller = caller,
                            !.callerStatus = callerStatus, !.calls = <<ReplyText>>]
        given == [rec EXCEPT !.admitted = TRUE, !.reply = reply, !.args = args,
                             !.fails = fails]
        user == AdminTools_get_user_from_message(reply, args, fails)
        apply == Call(api, user, <<>>)
    IN
    /\ bot = "admintools"
    /\ IF ~is_admin(callerStatus)
       THEN last' = [rec EXCEPT !.outcome = "forbidden"]
       ELSE IF user = 0
       THEN last' = [given EXCEPT !.outcome = "no target"]
       ELSE last' = [given EXCEPT !.outcome = IF api \in fails THEN "failed" ELSE "ok",
                                  !.subject = user,
                                  !.calls = <<apply, ReplyText>>]
    /\ UNCHANGED <<bot, users, DEVS, SUDOS, SUPPORTS, coreDb, tasks, muted_users, banned_users, handlers,
                 loaded_plugins>>

\* AdminTools.unmute_command
AdminTools_unmute_command(caller, callerStatus, reply, args, fails) ==
    AdminTools_lift("unmute", "restrict_chat_member", caller, callerStatus, reply,
                    args, fails)

\* AdminTools.demote_command
AdminTools_demote_command(caller, callerStatus, reply, args, fails) ==
    AdminTools_lift("demote", "promote_chat_member", caller, callerStatus, reply,
                    args, fails)

\* AdminTools.promote_command: promote_chat_member, then the custom title when
\* arguments follow the user (a title call that raises is passed over).
AdminTools_promote_command(caller, callerStatus, reply, args, fails) ==
    LET rec == [Idle EXCEPT !.cmd = "promote", !.site = "admintools",
                            !.caller = caller, !.callerStatus = callerStatus,
                            !.calls = <<ReplyText>>]
        given == [rec EXCEPT !.admitted = TRUE, !.reply = reply, !.args = args,
                             !.fails = fails]
        user == AdminTools_get_user_from_message(reply, args, fails)
        promote == Call("promote_chat_member", user, <<>>)
        title == Call("set_chat_administrator_custom_title", user, <<>>)
    IN
    /\ bot = "admintools"
    /\ IF ~is_admin(callerStatus)
       THEN last' = [rec EXCEPT !.outcome = "forbidden"]
       ELSE IF user = 0
       THEN last' = [given EXCEPT !.outcome = "no target"]
       ELSE IF "promote_chat_member" \in fails
       THEN last' = [given EXCEPT !.outcome = "failed", !.subject = user,
                                  !.calls = <<promote, ReplyText>>]
       ELSE last' = [given EXCEPT !.outcome = "ok", !.subject = user,
                                  !.calls = IF Len(args) > 1
                                            THEN <<promote, title, ReplyText>>
                                            ELSE <<promote, ReplyText>>]
    /\ UNCHANGED <<bot, users, DEVS, SUDOS, SUPPORTS, coreDb, tasks, muted_users, banned_users, handlers,
                 loaded_plugins>>

\* AdminTools.pin_command; replyMsg: the id of the message replied to (0: no
\* reply)
AdminTools_pin_command(caller, callerStatus, msg, replyMsg, fails) ==
    LET rec == [Idle EXCEPT !.cmd = "pin", !.site = "admintools", !.caller = caller,
                            !.callerStatus = callerStatus, !.calls = <<ReplyText>>]
        given == [rec EXCEPT !.admitted = TRUE, !.msg = msg, !.replyMsg = replyMsg,
                             !.fails = fails]
        pin == Call("pin_chat_message", replyMsg, <<>>)
    IN
    /\ bot = "admintools"
    /\ IF ~is_admin(callerStatus)
       THEN last' = [rec EXCEPT !.outcome = "forbidden"]
       ELSE IF replyMsg = 0
       THEN last' = [given EXCEPT !.outcome = "usage"]
       ELSE last' = [given EXCEPT !.outcome = IF "pin_chat_message" \in fails
                                              THEN "failed" ELSE "ok",
                                  !.calls = <<pin, ReplyText>>]
    /\ UNCHANGED <<bot, users, DEVS, SUDOS, SUPPORTS, coreDb, tasks, muted_users, banned_users, handlers,
                 loaded_plugins>>

\* AdminTools.unpin_command: the message replied to, or all with "/unpin all"
AdminTools_unpin_command(caller, callerStatus, msg, replyMsg, args, fails) ==
    LET rec == [Idle EXCEPT !.cmd = "unpin", !.site = "admintools", !.caller = caller,
                            !.callerStatus = callerStatus, !.calls = <<ReplyText>>]
        given == [rec EXCEPT !.admitted = TRUE, !.msg = msg, !.replyMsg = replyMsg,
                             !.args = args, !.fails = fails]
        unpin == Call("unpin_chat_message", replyMsg, <<>>)
        unpin_all == Call("unpin_all_chat_messages", 0, <<>>)
    IN
    /\ bot = "admintools"
    /\ IF ~is_admin(callerStatus)
       THEN last' = [rec EXCEPT !.outcome = "forbidden"]
       ELSE IF replyMsg # 0
       THEN last' = [given EXCEPT !.outcome = IF "unpin_chat_message" \in fails
                                              THEN "failed" ELSE "ok",
                                  !.calls = <<unpin, ReplyText>>]
       ELSE IF Len(args) > 0 /\ str_lower(args[1]) = <<"a", "l", "l">>
       THEN last' = [given EXCEPT !.outcome = IF "unpin_all_chat_messages" \in fails
                                              THEN "failed" ELSE "ok",
                                  !.calls = <<unpin_all, ReplyText>>]
       ELSE last' = [given EXCEPT !.outcome = "usage"]
    /\ UNCHANGED <<bot, users, DEVS, SUDOS, SUPPORTS, coreDb, tasks, muted_users, banned_users, handlers,
                 loaded_plugins>>

\* AdminTools.purge_command; replyMsg: the id of the message replied to (0:
\* no reply). A delete that raises is passed over: the calls are the same. The
\* last call is that of the delete_after_delay task the handler creates.
AdminTools_purge_command(caller, callerStatus, msg, replyMsg, args) ==
    LET rec == [Idle EXCEPT !.cmd = "purge", !.site = "admintools",
                            !.caller = caller, !.callerStatus = callerStatus,
                            !.calls = <<ReplyText>>]
        given == [rec EXCEPT !.admitted = TRUE, !.msg = msg, !.replyMsg = replyMsg,
                             !.args = args]
        count == Min(int(args[1]).val, PurgeLimit)
        confirm == Call("delete_message", Confirmation(msg), <<>>)
    IN
    /\ bot = "admintools"
    /\ IF ~is_admin(callerStatus)
       THEN last' = [rec EXCEPT !.outcome = "forbidden"]
       ELSE IF replyMsg # 0
       THEN last' = [given EXCEPT !.outcome = "ok",
                         !.calls = [i \in 1..(msg - replyMsg + 1) |->
                                        Call("delete_message", replyMsg + i - 1, <<>>)]
                                   \o <<ReplyText, confirm>>]
       ELSE IF Len(args) > 0 /\ isdigit(args[1])
       THEN last' = [given EXCEPT !.outcome = "ok",
                         !.calls = [i \in 1..(count + 1) |->
                                        Call("delete_message", msg - (i - 1), <<>>)]
                                   \o <<SendMessage, confirm>>]
       ELSE last' = [given EXCEPT !.outcome = "usage"]
    /\ UNCHANGED <<bot, users, DEVS, SUDOS, SUPPORTS, coreDb, tasks, muted_users, banned_users, handlers,
                 loaded_plugins>>

\* ------------------------------------------- two tban handlers at one time
\* The two tban_command coroutines of two updates that arrive together.
Handlers == {"first", "second"}

\* tban_command from its first line to "await context.bot.ban_chat_member":
\* the handler returns early, or has sent the call and waits for its answer.
\* The awaits before it (get_chat_member) touch nothing the other handler sees.
tban_begin(h, caller, callerStatus, args, targetStatus) ==
    LET rec == AdminTools_timed_record("tban", "ban_chat_member", caller, callerStatus,
                                       0, args, targetStatus, {})
    IN
    /\ bot = "admintools"
    /\ handlers[h].pc = "ready"
    /\ handlers' = [handlers EXCEPT ![h] =
                       IF rec.outcome = "ok"
                       THEN [pc |-> "awaiting",
                             rec |-> [rec EXCEPT !.outcome = "", !.calls = <<rec.calls[1]>>]]
                       ELSE [pc |-> "done", rec |-> rec]]
    /\ UNCHANGED <<bot, users, DEVS, SUDOS, SUPPORTS, coreDb, tasks, muted_users, banned_users, last,
                 loaded_plugins>>

\* tban_command from the answer of ban_chat_member (it returns, or raises) to
\* its reply. Nothing is written to banned_users.
tban_end(h, raised) ==
    /\ bot = "admintools"
    /\ handlers[h].pc = "awaiting"
    /\ handlers' = [handlers EXCEPT ![h] =
                       [pc |-> "done",
                        rec |-> [handlers[h].rec EXCEPT
                                    !.outcome = IF raised THEN "failed" ELSE "ok",
                                    !.fails = IF raised THEN {"ban_chat_member"} ELSE {},
                                    !.calls = Append(@, ReplyText)]]]
    /\ UNCHANGED <<bot, users, DEVS, SUDOS, SUPPORTS, coreDb, tasks, muted_users, banned_users, last,
                 loaded_plugins>>

\* ------------------------------------------------ the clock and the process
\* The until_date of the temporary ban or mute the last command made passes.
\* Neither main.py nor AdminTools has a timer, a task or a handler for it: no
\* code runs, no call is made, the stores are as they were.
until_date_passes ==
    /\ bot \in {"main", "admintools"}
    /\ Temporary(last) # {}
    /\ last' = [Idle EXCEPT !.cmd = "expiry", !.site = last.site,
                            !.subject = last.subject,
                            !.kind = IF \E c \in Temporary(last) :
                                              c.api = "ban_chat_member"
                                        THEN "ban" ELSE "mute"]
    /\ UNCHANGED <<bot, users, DEVS, SUDOS, SUPPORTS, coreDb, tasks, muted_users, banned_users, handlers,
                 loaded_plugins>>

\* The process of the AdminTools bot stops and starts again: AdminTools.__init__
restart ==
    /\ bot = "admintools"
    /\ muted_users' = EmptyDict
    /\ banned_users' = EmptyDict
    /\ last' = [Idle EXCEPT !.cmd = "restart", !.site = "admintools"]
    /\ UNCHANGED <<bot, users, DEVS, SUDOS, SUPPORTS, coreDb, tasks, handlers,
                 loaded_plugins>>

\* ------------------------------------------------------------------ inputs
\* The users that send commands: the owner and another user.
Callers == {OWNER_ID, MaxUser}

\* The user a moderation command targets.
Targets == {MaxUser}

Message(reply, args, fails) == [reply |-> reply, args |-> args, fails |-> fails]

\* The messages of a kick: a reply, a user id, a username, nothing; with each
\* of the calls of the handler raising.
KickMessages ==
    {Message(r, <<>>, f) : r \in Targets,
         f \in {{}, {"ban_chat_member"}, {"unban_chat_member"}}}
    \cup {Message(0, <<IdToken(u)>>, f) : u \in Targets,
         f \in {{}, {"get_chat_member"}, {"ban_chat_member"}, {"unban_chat_member"}}}
    \cup {Message(0, a, {}) : a \in {<<>>, <<<<"@", "b">>>>}}

\* The messages of a mute or ban with an optional duration; api is the call
\* that may raise.
MuteMessages(api) ==
    {Message(r, a, {}) : r \in Targets,
         a \in {<<>>} \cup {<<d>> : d \in DurationTokens}}
    \cup {Message(0, <<IdToken(u)>>, {}) : u \in Targets}
    \cup {Message(0, <<IdToken(u), d>>, {}) : u \in Targets, d \in DurationTokens}
    \cup {Message(r, <<>>, {api}) : r \in Targets}
    \cup {Message(0, <<IdToken(u)>>, {"get_chat_member"}) : u \in Targets}
    \cup {Message(0, a, {}) : a \in {<<>>, <<<<"3", "0", "m">>>>, <<<<"@", "b">>>>}}

\* The messages of /info: a reply, a user identifier, nothing.
InfoMessages ==
    {Message(r, <<>>, {}) : r \in UserIds}
    \cup {Message(0, <<id>>, {}) : id \in Identifiers}
    \cup {Message(0, <<>>, {}), Message(0, <<IdToken(MaxUser)>>, {"get_chat_member"})}

\* The message id of the command.
CommandMsg == MaxMsg

\* What get_chat_member answers about a member: a status, or it raises.
Statuses == {"creator", "administrator", "member", "error"}

\* The messages of AdminTools' sban and smute; api is the call that may raise.
SilentMessages(api) ==
    {Message(r, <<>>, f) : r \in Targets, f \in {{}, {api}, {"delete_message"}}}
    \cup {Message(0, <<id>>, f) : id \in {IdToken(MaxUser), <<"@", "b">>},
         f \in {{}, {"get_chat_member"}}}
    \cup {Message(0, a, {}) : a \in {<<>>, <<<<"5", "x">>>>}}

\* The id of the command message of a purge late in a long chat.
LateMsg == PurgeLimit + MaxMsg

\* The messages of a purge: a reply to an older message, a count, neither.
PurgeMessages ==
    {[msg |-> CommandMsg, replyMsg |-> r, args |-> <<>>] : r \in 1..(MaxMsg - 1)}
    \cup {[msg |-> CommandMsg, replyMsg |-> 0, args |-> a] :
             a \in {<<>>, <<<<"2">>>>, <<<<"5", "x">>>>}}

\* The messages of a purge late in a long chat: a reply to the first message
\* of the chat, a count above the limit.
LatePurgeMessages ==
    {[msg |-> LateMsg, replyMsg |-> 1, args |-> <<>>],
     [msg |-> LateMsg, replyMsg |-> 0, args |-> <<<<"1", "5", "0">>>>]}

\* The messages of pin and unpin: a reply, "all", another word, nothing.
PinMessages ==
    {[replyMsg |-> r, args |-> <<>>, fails |-> f] : r \in 1..(MaxMsg - 1),
         f \in {{}, {"pin_chat_message"}, {"unpin_chat_message"}}}
    \cup {[replyMsg |-> 0, args |-> a, fails |-> f] :
             a \in {<<>>, <<<<"a", "l", "l">>>>, <<<<"5", "x">>>>},
             f \in {{}, {"unpin_all_chat_messages"}}}

\* The messages of unmute, promote and demote; api is the call that may raise.
\* What follows the user of a promote is the title.
LiftMessages(api) ==
    {Message(r, <<>>, f) : r \in Targets, f \in {{}, {api}}}
    \cup {Message(0, <<IdToken(u)>>, f) : u \in Targets, f \in {{}, {"get_chat_member"}}}
    \cup {Message(0, <<IdToken(u), <<"x">>>>, {}) : u \in Targets}
    \cup {Message(0, <<>>, {})}

\* The strings the duration parsers are applied to: counts with each unit,
\* upper case, zero, signed, no unit, no count, an unknown unit, empty.
DurationStrings ==
    DurationTokens
    \cup {<<"3", "0", "s">>, <<"2", "d">>, <<"1", "w">>, <<"1", "H">>,
          <<"+", "5", "m">>, <<"1", "0">>, <<"m">>, <<>>}

\* What get_chat_member answers about the caller and about the target.
StatusPairs ==
    {<<"member", "member">>, <<"error", "member">>, <<"creator", "member">>,
     <<"administrator", "member">>, <<"administrator", "administrator">>,
     <<"administrator", "creator">>, <<"administrator", "error">>}

\* The messages of AdminTools' ban, mute and unban; api is the call that may
\* raise. What follows the user is the reason.
PermanentMessages(api) ==
    {Message(r, <<>>, f) : r \in Targets, f \in {{}, {api}}}
    \cup {Message(0, <<IdToken(u)>>, f) : u \in Targets, f \in {{}, {"get_chat_member"}}}
    \cup {Message(0, <<IdToken(u), d>>, {}) : u \in Targets,
             d \in {<<"0", "m">>, <<"1", "h">>}}
    \cup {Message(0, a, {}) : a \in {<<>>, <<<<"@", "b">>>>}}

\* The messages of AdminTools' tban and tmute: user and time, a reply with
\* two arguments, one argument only, none.
TimedMessages(api) ==
    {Message(0, <<IdToken(u), d>>, {}) : u \in Targets,
         d \in DurationTokens \cup {<<"3", "0", "s">>, <<"1", "H">>}}
    \cup {Message(0, <<IdToken(u), <<"1", "h">>>>, f) : u \in Targets,
             f \in {{api}, {"get_chat_member"}}}
    \cup {Message(r, <<<<"x">>, <<"1", "h">>>>, {}) : r \in Targets}
    \cup {Message(r, a, {}) : r \in {0} \cup Targets, a \in {<<>>, <<<<"1", "h">>>>}}

DeleteFails == {Message(r, <<>>, {"delete_message"}) : r \in Targets}

\* The plugin names the PluginManager is called with.
Plugins == {"alpha", "beta", "gamma"}

\* ------------------------------------------------------------------ system
\* main.py starts on an empty users table. core.py reads its rank lists from
\* the environment (the ids listed are among the owner's and another user's);
\* its constructors have created the two database tasks.
Init ==
    /\ bot \in {"main", "core", "admintools", "parsers", "plugins"}
    /\ users = EmptyTable
    /\ IF bot = "core"
       THEN /\ DEVS \in SUBSET Callers
            /\ SUDOS \in SUBSET Callers
            /\ SUPPORTS \in SUBSET Callers
            /\ tasks = CreatedTasks
       ELSE /\ DEVS = {}
            /\ SUDOS = {}
            /\ SUPPORTS = {}
            /\ tasks = NoTasks
    /\ coreDb = [created |-> FALSE, users |-> EmptyTable]
    /\ muted_users = EmptyDict
    /\ banned_users = EmptyDict
    /\ handlers = [h \in Handlers |-> [pc |-> "ready", rec |-> Idle]]
    /\ loaded_plugins = {}
    /\ last = Idle

Next ==
    \/ \E caller \in Callers :
          \/ \E word \in {"", "dev"} : setrank_command(caller, <<>>, word, {})
          \/ setrank_command(caller, <<IdToken(MaxUser)>>, "", {})
          \/ setrank_command(caller, <<IdToken(MaxUser)>>, "dev", {"set_user_rank"})
          \/ \E word \in {"user", "owner"} :
                setrank_command(caller, <<IdToken(OWNER_ID)>>, word, {})
          \/ \E id \in Identifiers \ {IdToken(OWNER_ID)}, word \in RankWords :
                setrank_command(caller, <<id>>, word, {})
    \/ \E caller \in Callers, m \in InfoMessages :
          info_command(caller, m.reply, m.args, m.fails)
    \/ \E cmd \in {"status", "stats"}, caller \in Callers : status_command(cmd, caller)
    \/ \E cmd \in {"kick", "skick"}, caller \in Callers :
          \/ kick_command(cmd, caller, "private", 0, <<>>, {})
          \/ \E m \in KickMessages :
                kick_command(cmd, caller, "group", m.reply, m.args, m.fails)
    \/ \E cmd \in {"ban", "tban"}, caller \in Callers :
          \/ ban_command(cmd, caller, "private", 0, <<>>, {})
          \/ \E m \in MuteMessages("ban_chat_member") :
                ban_command(cmd, caller, "group", m.reply, m.args, m.fails)
    \/ \E cmd \in {"mute", "tmute", "smute"}, caller \in Callers :
          \/ mute_command(cmd, caller, "private", 0, <<>>, {})
          \/ \E m \in MuteMessages("restrict_chat_member") :
                mute_command(cmd, caller, "supergroup", m.reply, m.args, m.fails)
    \/ \E caller \in Callers :
          \/ admin_sban_command(caller, "private", CommandMsg, 0, <<>>, {})
          \/ \E m \in MuteMessages("ban_chat_member") \cup DeleteFails :
                admin_sban_command(caller, "group", CommandMsg, m.reply, m.args, m.fails)
    \/ \E caller \in Callers, st \in StatusPairs, m \in SilentMessages("ban_chat_member") :
          AdminTools_sban_command(caller, st[1], CommandMsg, m.reply, m.args, st[2],
                                  m.fails)
    \/ \E caller \in Callers, st \in StatusPairs,
          m \in SilentMessages("restrict_chat_member") :
          AdminTools_smute_command(caller, st[1], CommandMsg, m.reply, m.args, st[2],
                                   m.fails)
    \/ \E caller \in Callers, callerStatus \in Statuses, m \in PurgeMessages :
          \/ AdminTools_spurge_command(caller, callerStatus, m.msg, m.replyMsg, m.args)
          \/ AdminTools_purge_command(caller, callerStatus, m.msg, m.replyMsg, m.args)
    \/ \E caller \in Callers, m \in PurgeMessages :
          \/ admin_purge_command(caller, "group", m.msg, m.replyMsg, m.args, {})
          \/ admin_purge_command(caller, "private", m.msg, m.replyMsg, m.args, {})
          \/ admin_purge_command(caller, "group", m.msg, m.replyMsg, m.args,
                                 {"delete_message"})
    \/ \E m \in LatePurgeMessages :
          \/ AdminTools_spurge_command(OWNER_ID, "administrator", m.msg, m.replyMsg,
                                       m.args)
          \/ AdminTools_purge_command(OWNER_ID, "administrator", m.msg, m.replyMsg,
                                      m.args)
          \/ admin_purge_command(OWNER_ID, "supergroup", m.msg, m.replyMsg, m.args, {})
    \/ \E caller \in Callers, callerStatus \in Statuses, m \in PinMessages :
          \/ AdminTools_pin_command(caller, callerStatus, CommandMsg, m.replyMsg, m.fails)
          \/ AdminTools_unpin_command(caller, callerStatus, CommandMsg, m.replyMsg,
                                      m.args, m.fails)
    \/ \E caller \in Callers, callerStatus \in Statuses,
          m \in LiftMessages("restrict_chat_member") :
          AdminTools_unmute_command(caller, callerStatus, m.reply, m.args, m.fails)
    \/ \E caller \in Callers, callerStatus \in Statuses,
          m \in LiftMessages("promote_chat_member") :
          \/ AdminTools_promote_command(caller, callerStatus, m.reply, m.args, m.fails)
          \/ AdminTools_demote_command(caller, callerStatus, m.reply, m.args, m.fails)
    \/ \E caller \in Callers, st \in StatusPairs, m \in PermanentMessages("ban_chat_member") :
          AdminTools_ban_command(caller, st[1], m.reply, m.args, st[2], m.fails)
    \/ \E caller \in Callers, st \in StatusPairs,
          m \in PermanentMessages("restrict_chat_member") :
          AdminTools_mute_command(caller, st[1], m.reply, m.args, st[2], m.fails)
    \/ \E caller \in Callers, st \in StatusPairs, m \in TimedMessages("ban_chat_member") :
          AdminTools_tban_command(caller, st[1], m.reply, m.args, st[2], m.fails)
    \/ \E caller \in Callers, st \in StatusPairs,
          m \in TimedMessages("restrict_chat_member") :
          AdminTools_tmute_command(caller, st[1], m.reply, m.args, st[2], m.fails)
    \/ \E caller \in Callers, callerStatus \in Statuses,
          m \in PermanentMessages("unban_chat_member") :
          AdminTools_unban_command(caller, callerStatus, m.reply, m.args, m.fails)
    \/ \E caller \in Callers, st \in StatusPairs, m \in KickMessages :
          AdminTools_kick_command(caller, st[1], m.reply, m.args, st[2], m.fails)
    \/ until_date_passes
    \/ restart
    \/ \E d \in DurationStrings : parse_duration(d)
    \/ \E p \in Plugins, finds \in LoadFinds : load_plugin(p, finds)
    \/ \E p \in Plugins, finds \in LoadFinds, cleanup_raises \in BOOLEAN :
          reload_plugin(p, cleanup_raises, finds)
    \/ \E p \in Plugins, cleanup_raises \in BOOLEAN : unload_plugin(p, cleanup_raises)
    \/ init_db_connect
    \/ init_db
    \/ add_user_connect
    \/ add_user
    \/ \E u \in UserIds : get_rank(u)
    \/ \E u \in UserIds, r \in RequiredNames : core_check_rank(u, r)

Spec == Init /\ [][Next]_vars

\* Two updates with /tban arrive together at the AdminTools bot.
InitConcurrent == Init /\ bot = "admintools"

NextConcurrent ==
    \/ \E h \in Handlers, caller \in Callers,
          st \in {<<"administrator", "member">>, <<"member", "member">>},
          u \in Targets, d \in {<<"3", "0", "m">>, <<"1", "h">>, <<"5", "x">>} :
          tban_begin(h, caller, st[1], <<IdToken(u), d>>, st[2])
    \/ \E h \in Handlers, raised \in BOOLEAN : tban_end(h, raised)

SpecConcurrent == InitConcurrent /\ [][NextConcurrent]_vars

\* ------------------------------------------------------------------ claims
\* The persisted rank store of the running bot.
Store == IF bot = "core" THEN coreDb.users ELSE users

\* Rank resolution has just answered (main.py: /info shows it; core.py: get_rank).
Resolved == last.cmd \in {"info", "get_rank"} /\ last.outcome = "ok"

\* C1, as stated: rank resolution returns Owner for the configured owner id,
\* otherwise the rank persisted for the id if a record exists, otherwise User.
C1_Original ==
    Resolved =>
        last.rank = IF last.subject = OWNER_ID THEN "owner"
                    ELSE IF Store[last.subject] # NoRecord THEN Store[last.subject]
                    ELSE "user"

\* C1, amended: in main.py rank resolution is as stated; in core.py it returns
\* Owner for the owner id, otherwise the rank of the first of the configured
\* lists DEVS, SUDOS, SUPPORTS that holds the id, otherwise User, whatever the
\* persisted store holds. It always answers.
C1_Resolve ==
    /\ Resolved /\ last.site = "main" =>
           last.rank = IF last.subject = OWNER_ID THEN "owner"
                       ELSE IF users[last.subject] # NoRecord THEN users[last.subject]
                       ELSE "user"
    /\ Resolved /\ last.site = "core" =>
           last.rank = IF last.subject = OWNER_ID THEN "owner"
                       ELSE IF last.subject \in DEVS THEN "dev"
                       ELSE IF last.subject \in SUDOS THEN "sudo"
                       ELSE IF last.subject \in SUPPORTS THEN "support"
                       ELSE "user"
    /\ last.cmd = "get_rank" => last.outcome = "ok"
    /\ last.cmd = "info" /\ last.fails = {} => last.outcome = "ok"

\* C1 witness: main.py resolved a user that is not the owner from its row.
C1_Witness ==
    /\ Resolved /\ last.site = "main"
    /\ last.subject # OWNER_ID
    /\ users[last.subject] \notin {NoRecord, "user"}
    /\ last.rank = users[last.subject]

\* The rank order of the specification, User < Support < Sudo < Dev < Owner,
\* with admin at the tier of sudo ("sudo/admin").
RankOrder ==
    [user |-> 1, support |-> 2, sudo |-> 3, admin |-> 3, dev |-> 4, owner |-> 5]

\* The ranks of the hierarchy.
Hierarchy == {"user", "support", "sudo", "dev", "owner"}

\* The rank the caller of a step resolved to when the gate ran.
CallerRank ==
    IF last'.site = "core" THEN TelegramBot_get_rank(last'.caller)
    ELSE get_user_rank(users, last'.caller)

\* C2: the gate (main.py check_rank for the names its handlers pass, core.py
\* TelegramBot.check_rank for the names of the hierarchy) admits a caller if
\* and only if the caller's resolved rank is at least the required rank in the
\* order User < Support < Sudo < Dev < Owner.
C2_GateFollowsOrder ==
    [][(\/ last'.site = "main" /\ last'.required \in {"sudo", "admin", "owner"}
        \/ last'.site = "core" /\ last'.required \in Hierarchy)
          => (last'.admitted <=> RankOrder[CallerRank] >= RankOrder[last'.required])]_vars

\* C3: for the caller's resolved rank and the required rank name of any gated
\* command, the gates of core.py, main.py and modules/admin.py decide alike.
C3_GatesAgree ==
    [][(last'.site \in {"main", "core", "module"} /\ last'.required # "")
          => /\ check_rank_admits(CallerRank, last'.required)
                  = TelegramBot_check_rank_admits(CallerRank, last'.required)
             /\ check_rank_admits(CallerRank, last'.required)
                  = admin_check_rank(CallerRank, last'.required)]_vars

\* C4: for every user u and all ranks r1 < r2 of the hierarchy, a gate that
\* admits u for r2 admits u for r1 (main.py's gate also in the order of its
\* own RANKS table).
C4_Monotonic ==
    \A u \in UserIds :
        /\ \A r1, r2 \in Hierarchy :
              RankOrder[r1] < RankOrder[r2] =>
                  /\ check_rank(users, u, r2) => check_rank(users, u, r1)
                  /\ TelegramBot_check_rank(u, r2) => TelegramBot_check_rank(u, r1)
        /\ \A r1, r2 \in DOMAIN RANKS :
              RANKS[r1] < RANKS[r2] =>
                  (check_rank(users, u, r2) => check_rank(users, u, r1))

\* C4 witness: a gate has admitted a user that is not the owner for a
\* required rank above the lowest one.
C4_Witness ==
    /\ last.admitted /\ last.site \in {"main", "core"}
    /\ last.caller # OWNER_ID
    /\ last.required \in {"sudo", "admin", "dev"}

\* The level of a caller of main.py before a step, in main.py's RANKS.
ActorLevel == DictGet(RANKS, get_user_rank(users, last'.caller), 0)

\* C5: a set-rank request of an actor whose resolved rank is below Dev fails
\* as forbidden and leaves the persisted rank store unchanged.
C5_BelowDevForbidden ==
    [][(last'.cmd = "setrank" /\ ActorLevel < RANKS.dev)
          => (last'.outcome = "forbidden" /\ users' = users)]_vars

\* C5 witness: an actor of rank sudo or admin asked for a well-formed set-rank
\* and was refused.
C5_Witness ==
    /\ last.cmd = "setrank" /\ last.outcome = "forbidden"
    /\ get_user_rank(users, last.caller) \in {"sudo", "admin"}
    /\ Len(last.args) = 1 /\ isdigit(last.args[1]) /\ last.word \in DOMAIN RANKS

\* The set-rank request of a step names a subject by number, not the owner,
\* and the store write does not raise.
SubjectNotOwner ==
    /\ Len(last'.args) = 1 /\ isdigit(last'.args[1])
    /\ int(last'.args[1]).val # OWNER_ID
    /\ last'.fails = {}

C7_SetThenResolve ==
    [][\A s \in UserIds \ {OWNER_ID} :
          IF last'.cmd = "setrank" /\ last'.outcome = "ok" /\ last'.subject = s
          THEN get_user_rank(users', s) = last'.rank
          ELSE get_user_rank(users', s) = get_user_rank(users, s)]_vars

\* C7 witness: a set-rank to sudo succeeded for a user that is not the owner,
\* who now resolves to sudo.
C7_Witness ==
    /\ last.cmd = "setrank" /\ last.outcome = "ok"
    /\ last.subject # OWNER_ID
    /\ last.rank = "sudo"
    /\ get_user_rank(users, last.subject) = "sudo"

\* C8: a set-rank whose subject is the owner id fails with an invalid-target
\* error, and no persisted rank record is keyed by the owner id.
C8_OwnerNeverTargeted ==
    /\ (/\ last.cmd = "setrank" /\ last.admitted
        /\ Len(last.args) = 1 /\ isdigit(last.args[1])
        /\ int(last.args[1]).val = OWNER_ID
        /\ last.word # "")
          => last.outcome = "invalid target"
    /\ users[OWNER_ID] = NoRecord
    /\ coreDb.users[OWNER_ID] = NoRecord

\* C9: a user id resolves to Owner if and only if it is the configured owner
\* id.
C9_OwnerOnlyConfigured ==
    \A u \in UserIds : (get_user_rank(users, u) = "owner") <=> (u = OWNER_ID)

\* The calls that moderate: ban, restrict, delete.
Moderates(calls) ==
    \E i \in 1..Len(calls) :
        calls[i].api \in {"ban_chat_member", "restrict_chat_member", "delete_message"}

\* The caller of the last command holds what its gate is there to require:
\* the required rank (main.py, modules/admin.py), an admin status (AdminTools).
Authorized ==
    IF last.site = "admintools"
    THEN last.callerStatus \in {"creator", "administrator"}
    ELSE DictGet(RANKS, get_user_rank(users, last.caller), 0)
             >= DictGet(RANKS, last.required, 0)

\* C10: a silent command (sban, smute, skick, spurge) makes a ban, restrict or
\* delete call only for a caller that passed the rank or admin check.
C10_SilentNeverBypasses ==
    (last.cmd \in {"sban", "smute", "skick", "spurge"} /\ Moderates(last.calls))
        => Authorized

\* A positive count followed by a known unit (in either letter case).
WellFormed(d) ==
    /\ Len(d) >= 2
    /\ isdigit(SubSeq(d, 1, Len(d) - 1))
    /\ DecimalValue(SubSeq(d, 1, Len(d) - 1)) > 0
    /\ LowerChar(d[Len(d)]) \in {"s", "m", "h", "d", "w"}

\* C18: every duration parser rejects a malformed string (not a positive count
\* followed by a known unit) with a result that is neither a valid duration
\* nor zero: a negative int, or None.
C18_MalformedRejected ==
    (last.cmd = "parse" /\ ~WellFormed(last.args[1]))
        => /\ last.result.main < 0
           /\ last.result.admin < 0
           /\ (last.result.tools = <<>> \/ last.result.tools[1] < 0)

\* The seconds an int result stands for; zero is the parsers' "no duration".
SecondsOfInt(n) == IF n = 0 THEN <<>> ELSE <<n>>

\* The seconds an Optional[int] result stands for.
SecondsOfOptional(r) == IF r = <<0>> THEN <<>> ELSE r

\* C19: for every string the three duration parsers (main.py, modules/admin.py,
\* AdminTools.parse_time) all reject it or all return the same seconds.
C19_ParsersAgree ==
    last.cmd = "parse"
        => /\ SecondsOfInt(last.result.main) = SecondsOfInt(last.result.admin)
           /\ SecondsOfInt(last.result.main) = SecondsOfOptional(last.result.tools)

\* A store of temporary actions holds an entry for the user, in some chat.
Tracked(store, user) == \E chat \in DOMAIN store : user \in DOMAIN store[chat]

\* A count of zero followed by a known unit.
ZeroCount(d) ==
    /\ Len(d) >= 2
    /\ isdigit(SubSeq(d, 1, Len(d) - 1))
    /\ DecimalValue(SubSeq(d, 1, Len(d) - 1)) = 0
    /\ LowerChar(d[Len(d)]) \in {"s", "m", "h", "d", "w"}

\* The command names its target and nothing more, or a zero duration after it.
DurationZeroOrAbsent ==
    \/ last.reply # 0 /\ Len(last.args) = 0
    \/ last.reply = 0 /\ Len(last.args) = 1
    \/ last.reply = 0 /\ Len(last.args) = 2 /\ ZeroCount(last.args[2])

\* C16: a ban or mute (ban, mute, sban, smute; main.py, modules/admin.py,
\* AdminTools) that succeeds with a zero or absent duration has made its ban
\* or restrict call with no until_date, and no entry for the user is recorded
\* in muted_users or banned_users.
C16_ZeroOrAbsentIsPermanent ==
    (/\ last.cmd \in {"ban", "mute", "sban", "smute"}
     /\ last.outcome = "ok"
     /\ DurationZeroOrAbsent)
        => /\ Restrictions(last.calls) # {}
           /\ \A c \in Restrictions(last.calls) : c.until = <<>>
           /\ ~Tracked(muted_users, last.subject)
           /\ ~Tracked(banned_users, last.subject)

\* C16 witness: main.py has banned a user on "/ban <id> 0m".
C16_Witness ==
    /\ last.cmd = "ban" /\ last.site = "main" /\ last.outcome = "ok"
    /\ Len(last.args) = 2 /\ last.args[2] = <<"0", "m">>
    /\ \E c \in Restrictions(last.calls) : c.until = <<>>

\* C20: a tban or tmute whose duration token (the token after the user) is
\* malformed or not positive makes no ban or restrict call.
C20_BadDurationNoCall ==
    (/\ last.cmd \in {"tban", "tmute"}
     /\ last.reply = 0 /\ Len(last.args) = 2
     /\ ~WellFormed(last.args[2]))
        => Restrictions(last.calls) = {}

\* The entries a store of temporary actions holds for the user: an entry is
\* Pending while it is in the store.
Pending(store, user) ==
    {<<chat, store[chat][user]>> : chat \in {c \in DOMAIN store : user \in DOMAIN store[c]}}

\* The calls among the transport calls that lift a ban or mute of the user.
Reversals(calls, user) ==
    {i \in 1..Len(calls) :
        /\ calls[i].api \in {"unban_chat_member", "restrict_chat_member"}
        /\ calls[i].arg = user /\ calls[i].until = <<>>}

\* C11: AdminTools holds at most one Pending temporary ban per (chat, user),
\* and after a second successful /tban of the same user exactly one Pending
\* entry for that user is in banned_users.
C11_OnePendingPerKey ==
    [][(/\ last.site = "admintools" /\ last.cmd = "tban" /\ Temporary(last) # {}
        /\ last'.site = "admintools" /\ last'.cmd = "tban" /\ Temporary(last') # {}
        /\ last'.subject = last.subject)
          => Cardinality(Pending(banned_users', last'.subject)) = 1]_vars

\* C12: when the until_date of a temporary ban or mute passes, the program
\* makes exactly one call that lifts it.
C12_OneReversalAtExpiry ==
    [][last'.cmd = "expiry"
          => Cardinality(Reversals(last'.calls, last'.subject)) = 1]_vars

\* A temporary restriction made by AdminTools is outstanding: it was just made,
\* or its until_date has passed and nothing has lifted it.
Outstanding(l) ==
    /\ l.site = "admintools"
    /\ (l.cmd = "expiry" \/ (l.cmd \in {"tban", "tmute"} /\ Temporary(l) # {}))

\* C13: after a restart every temporary action that was outstanding before it
\* is still tracked in banned_users or muted_users, and one whose until_date
\* had passed has its reversal call made during the restart.
C13_RestartKeepsActions ==
    [][(last'.cmd = "restart" /\ Outstanding(last))
          => /\ Tracked(banned_users', last.subject) \/ Tracked(muted_users', last.subject)
             /\ last.cmd = "expiry" => Reversals(last'.calls, last.subject) # {}]_vars

\* C15: a temporary action whose until_date has passed and whose reversal has
\* not succeeded is still in the store (Pending), never dropped.
C15_FailedReversalStaysPending ==
    [][(last'.cmd = "expiry" /\ last'.site = "admintools"
        /\ Reversals(last'.calls, last'.subject) = {})
          => IF last'.kind = "ban" THEN Tracked(banned_users', last'.subject)
             ELSE Tracked(muted_users', last'.subject)]_vars

\* C17: when two concurrent /tban of the same user have both succeeded, the
\* state is that of one of the two serial orders: exactly one Pending entry
\* for the user is in banned_users, with the expiry of one of the two.
C17_ConcurrentTbansSerialized ==
    (/\ \A h \in Handlers : handlers[h].pc = "done" /\ handlers[h].rec.outcome = "ok"
     /\ \A h, g \in Handlers : handlers[h].rec.subject = handlers[g].rec.subject)
        => \E h \in Handlers :
              \E chat \in DOMAIN banned_users :
                  Pending(banned_users, handlers[h].rec.subject)
                      = {<<chat, handlers[h].rec.calls[1].until>>}

\* The duration token of a main.py ban or mute: what follows the user id, or,
\* on a reply, what follows the command (<<>>: none).
DurationToken(l) ==
    IF l.reply # 0
    THEN (IF Len(l.args) >= 1 THEN l.args[Len(l.args)] ELSE <<>>)
    ELSE (IF Len(l.args) >= 2 THEN l.args[Len(l.args)] ELSE <<>>)

\* A positive count followed by a unit of main.py (m, h, d, w).
PositiveDuration(d) ==
    /\ Len(d) >= 2
    /\ isdigit(SubSeq(d, 1, Len(d) - 1))
    /\ DecimalValue(SubSeq(d, 1, Len(d) - 1)) > 0
    /\ d[Len(d)] \in {"m", "h", "d", "w"}

\* The seconds a positive duration token stands for.
SecondsOf(d) ==
    DecimalValue(SubSeq(d, 1, Len(d) - 1))
        * (CASE d[Len(d)] = "m" -> 60 [] d[Len(d)] = "h" -> 3600
             [] d[Len(d)] = "d" -> 86400 [] OTHER -> 604800)

\* C21: in main.py a ban, tban, mute, tmute or smute that carries a well-formed
\* positive duration token, the target given by reply or by user id, makes its
\* ban or restrict call with until_date = now + the seconds of the token,
\* never with no until_date.
C21_DurationGivesExpiry ==
    (/\ last.site = "main"
     /\ last.cmd \in {"ban", "tban", "mute", "tmute", "smute"}
     /\ PositiveDuration(DurationToken(last)))
        => \A c \in Restrictions(last.calls) :
               c.until = <<SecondsOf(DurationToken(last))>>

\* The call of the api that the last command made and that did not raise.
Succeeded(l, api) ==
    /\ \E i \in 1..Len(l.calls) : l.calls[i].api = api
    /\ api \notin l.fails

\* C22: after a kick (main.py kick and skick, AdminTools kick) whose ban call
\* succeeded, the target is not left banned: an unban call for the target has
\* succeeded when the command finishes.
C22_KickLeavesUnbanned ==
    (last.cmd \in {"kick", "skick"} /\ Succeeded(last, "ban_chat_member"))
        => /\ Succeeded(last, "unban_chat_member")
           /\ \E i \in 1..Len(last.calls) :
                 /\ last.calls[i].api = "unban_chat_member"
                 /\ last.calls[i].arg = last.subject

\* C23: in AdminTools no ban, sban, tban, kick, mute, smute or tmute makes a
\* ban or restrict call for a target whose chat status is creator or
\* administrator, or whose status lookup failed.
C23_AdminsNeverRestricted ==
    (/\ last.site = "admintools"
     /\ last.cmd \in {"ban", "sban", "tban", "kick", "mute", "smute", "tmute"}
     /\ last.targetStatus \in {"creator", "administrator", "error"})
        => Restrictions(last.calls) = {}

\* C23 witness: an administrator named a target by a well-formed command,
\* the lookup of the target's status raised, and the command was refused.
C23_Witness ==
    /\ last.site = "admintools" /\ last.cmd \in {"tban", "kick", "smute"}
    /\ last.admitted /\ last.subject # 0
    /\ last.targetStatus = "error"
    /\ last.outcome = "cannot restrict"
    /\ Restrictions(last.calls) = {}

\* The commands of AdminTools behind is_admin.
GatedCommands ==
    {"ban", "sban", "tban", "kick", "unban", "mute", "smute", "tmute", "unmute",
     "promote", "demote", "pin", "unpin", "purge", "spurge"}

\* C24: when the lookup of the caller's chat membership raises (BadRequest or
\* Forbidden), is_admin answers False and the gated command of AdminTools
\* returns with no call to the transport but, at most, its refusal reply.
C24_GateFailsClosed ==
    (/\ last.site = "admintools" /\ last.cmd \in GatedCommands
     /\ last.callerStatus = "error")
        => /\ ~last.admitted
           /\ last.outcome = "forbidden"
           /\ \A i \in 1..Len(last.calls) : last.calls[i] = ReplyText

\* C24 witness: the lookup of the caller raised on a promote, a pin or a purge,
\* and the command was refused.
C24_Witness ==
    /\ last.site = "admintools" /\ last.cmd \in {"promote", "pin", "purge"}
    /\ last.callerStatus = "error"
    /\ last.outcome = "forbidden"
    /\ last.calls = <<ReplyText>>

\* The messages a purge has issued a delete call for, besides the command
\* message and the confirmation the purge itself has sent.
Purged(l) ==
    {l.calls[i].arg : i \in {j \in 1..Len(l.calls) : l.calls[j].api = "delete_message"}}
        \ {l.msg, Confirmation(l.msg)}

\* C25: one purge (modules/admin.py purge, AdminTools purge and spurge), in the
\* count form and in the reply form, issues delete calls for at most 100
\* messages besides the command message itself.
C25_PurgeLimited ==
    last.cmd \in {"purge", "spurge"} => Cardinality(Purged(last)) <= PurgeLimit

\* C26: a purge in reply form issues delete calls for exactly the messages
\* from the message replied to up to the command message, in every variant
\* (modules/admin.py purge, AdminTools purge and spurge), and for no message
\* older than the one replied to.
C26_PurgeReplyInterval ==
    (/\ last.cmd \in {"purge", "spurge"} /\ last.outcome = "ok" /\ last.replyMsg # 0)
        => Purged(last) \cup {last.msg} = last.replyMsg..last.msg

\* C27: after load_plugin(p) or reload_plugin(p) has returned, p is in
\* loaded_plugins if and only if the call returned True.
C27_LoadedIffReturnedTrue ==
    last.cmd \in {"load_plugin", "reload_plugin"}
        => (last.plugin \in loaded_plugins <=> last.returned)

\* C28: in core.py, in every interleaving of the init_db task and the add_user
\* task, the INSERT into users of add_user executes only after the CREATE
\* TABLE of init_db has committed.
C28_TablesBeforeWrites ==
    [][last'.cmd = "add_user" => coreDb.created]_vars

\* The names of the rank hierarchy: owner > dev > sudo/admin > support > user.
HierarchyNames == {"owner", "dev", "sudo", "admin", "support", "user"}

====
